---- MODULE Spec2Model ----
(***************************************************************************)
(* State-machine model of the portfolio page's interaction logic:          *)
(*   src/AE311_Portfolio/script.js  (project switching, welcome banner,    *)
(*                                   side-menu scrolling, print view)      *)
(*   src/scripts/popup.js           (email popup, copy to clipboard)       *)
(*                                                                         *)
(* The markup the scripts run against is external to the repository, so    *)
(* Init draws it from a small family of documents (variable dom).  Time    *)
(* is kept relative: every pending timer carries the milliseconds left     *)
(* until it is due, Tick lets time pass up to the next deadline, and a     *)
(* due timer fires as its own step (single-threaded event loop).           *)
(***************************************************************************)
EXTENDS Integers, Sequences, FiniteSets, TLC

VARIABLES
    dom,               \* the markup: constant after Init
    loaded,            \* the DOMContentLoaded handler has run
    bodyBannerHidden,  \* document.body has class 'banner-hidden'
    bannerHiddenClass, \* .fullscreen-banner has class 'hidden'
    bannerDisplayNone, \* .fullscreen-banner has style.display = 'none'
    projActive,        \* the .project-section elements with class 'active'
    navActive,         \* the '.sticky-header nav a' links with class 'active'
    menuActive,        \* the 'aside.menu a' links with class 'active'
    dismissCount,      \* history: hideBanner() calls that found the banner
    sched,             \* history: banner timers scheduled, per kind
    fired,             \* history: banner timers fired, per kind
    timers,            \* pending setTimeout callbacks, in scheduling order
    frames,            \* the print iframes created so far, one per print job
    overlayShown,      \* #overlay has style.display = 'block'
    popupShown,        \* #emailPopup has style.display = 'block'
    buttonLabel,       \* #copyButton's textContent
    copyCount,         \* history: copyEmail() calls
    win,               \* the window geometry: outer and inner sizes
    devtools,          \* initializeDevToolsDetection's flag
    emitCount,         \* history: polls that wrote the copyright notice
    focus,             \* where document.activeElement lies: 0 or a project
    lastOp             \* history: the handler that produced this state

navVars    == <<loaded, bodyBannerHidden, bannerHiddenClass, bannerDisplayNone,
                projActive, navActive, menuActive, dismissCount, sched, fired>>
printVars  == <<frames>>
popupVars  == <<overlayShown, popupShown, buttonLabel, copyCount>>
monitorVars == <<win, devtools, emitCount>>
guardVars  == <<focus>>
vars       == <<dom, navVars, printVars, popupVars, monitorVars, guardVars,
                timers, lastOp>>

(***************************************************************************)
(* Bounds of the model.                                                    *)
(***************************************************************************)
NumProjects == 3    \* project sections project_1 .. project_NumProjects
NumSections == 2    \* sections (and side-menu links) per project
MaxDismiss  == 2    \* hideBanner() calls explored
MaxCopies   == 3    \* copyEmail() calls explored
MaxPrints   == 2    \* printProject() calls explored
SectionSpacing == 400  \* layout: offsetTop distance between two sections
UserPause   == 1000 \* a pause between two clicks, shorter than the next deadline
MaxEmits    == 2    \* copyright notices explored (detection episodes)
OuterSize   == 1000 \* window.outerWidth and outerHeight
MaxGap      == 300  \* largest outer - inner difference explored

(***************************************************************************)
(* Program constants.                                                      *)
(***************************************************************************)
HeaderClearance    == 60      \* targetSection.offsetTop - 60
BannerShowDelay    == 600     \* hideBanner: first setTimeout
BannerRemoveDelay  == 1200    \* hideBanner: second setTimeout
CopyRevertDelay    == 3000    \* copyEmail: setTimeout
PrintDelay         == 500     \* printFrame.onload: setTimeout
PrintCleanupDelay  == 1000    \* after print(): setTimeout
PrintFallbackDelay == 10000   \* printProject: fallback setTimeout
DevToolsThreshold  == 160     \* outer - inner > 160


(***************************************************************************)
(* The document.  Selectors and elements are records of one shape.         *)
(***************************************************************************)
Projects == 1..NumProjects
Sections == 1..NumSections

Sel(k, p, s)      == [kind |-> k, p |-> p, s |-> s]
ProjectSel(p)     == Sel("project", p, 0)      \* '#project_<p>'
SectionSel(p, s)  == Sel("section", p, s)      \* '#project_<p>-<s>'
MissingSel        == Sel("missing", 0, 0)      \* a valid selector matching nothing
MalformedSel      == Sel("malformed", 0, 0)    \* not a selector, e.g. '../index.html'
Null              == Sel("null", 0, 0)

\* The markups explored.  The plain one has a header link and an <article>
\* per project, the welcome banner, and no 'banner-hidden' class on <body>.
\* Every other one differs from it in one respect: an extra header link whose
\* href names no project (a selector matching nothing, or no selector at all),
\* one project without an <article>, no banner, or 'banner-hidden' set in the
\* markup.
ExtraHrefs == {Null, MissingSel, MalformedSel}
PlainDom == [extraHref |-> Null, noArticle |-> 0, hasBanner |-> TRUE, hiddenAtLoad |-> FALSE]
Doms == {d \in [extraHref : ExtraHrefs, noArticle : 0..NumProjects,
                hasBanner : BOOLEAN, hiddenAtLoad : BOOLEAN] :
           Cardinality({f \in DOMAIN d : d[f] # PlainDom[f]}) <= 1}

HasArticle(p) == p \in Projects /\ dom.noArticle # p

\* document.querySelectorAll('.sticky-header nav a'), in document order
NavLinks == IF dom.extraHref = Null THEN 1..NumProjects ELSE 1..(NumProjects + 1)
NavHref(l) == IF l \in Projects THEN ProjectSel(l) ELSE dom.extraHref

\* document.querySelectorAll('.project-section aside.menu a')
MenuLinks == Projects \X Sections
MenuHref(m) == SectionSel(m[1], m[2])

SetMin(S) == CHOOSE x \in S : \A y \in S : x <= y

\* document.querySelector(sel) / getElementById: the element, or Null.
\* (Callers test SelectorThrows first: a malformed selector raises SyntaxError.)
SelectorThrows(sel) == sel.kind = "malformed"
querySelector(sel) ==
    CASE sel.kind = "project" /\ sel.p \in Projects -> sel
      [] sel.kind = "section" /\ HasArticle(sel.p) /\ sel.s \in Sections -> sel
      [] OTHER -> Null

\* document.querySelector(`.sticky-header a[href="${targetId}"]`): the first
\* header link with that href, or 0
HeaderLinkFor(targetId) ==
    LET ls == {l \in NavLinks : NavHref(l) = targetId}
    IN IF ls = {} THEN 0 ELSE SetMin(ls)

\* targetSection.offsetTop
OffsetTop(sec) == (sec.s - 1) * SectionSpacing

(***************************************************************************)
(* History record of the last handler.                                     *)
(***************************************************************************)
NoScroll == <<>>
\* arg is a tuple: <<l>> for header link l, the pair m for a side-menu link,
\* <<j>> for print job j, <<projectId>>, <<>> for none
Op(name, arg) == [op |-> name, arg |-> arg, threw |-> FALSE,
                  log |-> <<>>, scroll |-> NoScroll, prevented |-> FALSE]

(***************************************************************************)
(* showProject(targetId), script.js 41-68.  ui is the record of the three  *)
(* class sets; the result adds whether querySelector threw.                *)
(***************************************************************************)
Ui == [proj |-> projActive, nav |-> navActive, menu |-> menuActive, threw |-> FALSE]

\* showProject without lines 47-50: the header links keep their class
showProjectKeepsNav(ui, targetId) ==
    LET targetSection == querySelector(targetId)
        activeLink == HeaderLinkFor(targetId)
    IN IF SelectorThrows(targetId)
       THEN [proj |-> {}, nav |-> ui.nav, menu |-> {}, threw |-> TRUE]
       ELSE [proj  |-> IF targetSection.kind = "project"
                       THEN {targetSection.p} ELSE {},
             nav   |-> IF activeLink # 0 THEN ui.nav \cup {activeLink} ELSE ui.nav,
             menu  |-> {},
             threw |-> FALSE]

showProject(ui, targetId) ==
    LET cleared == [proj |-> {}, nav |-> {}, menu |-> {}, threw |-> FALSE]
    IN IF SelectorThrows(targetId)
       THEN [cleared EXCEPT !.threw = TRUE]          \* line 58 throws
       ELSE LET targetSection == querySelector(targetId)
                activeLink == HeaderLinkFor(targetId)
            IN [proj  |-> IF targetSection.kind = "project"
                          THEN {targetSection.p} ELSE {},
                nav   |-> IF activeLink # 0 THEN {activeLink} ELSE {},
                menu  |-> {},
                threw |-> FALSE]

(***************************************************************************)
(* scrollToSection(sectionId), script.js 74-99.                            *)
(***************************************************************************)
\* document.querySelector('.project-section.active article'): the article of
\* the first active project that has one (0: none)
ActiveArticle(proj) ==
    LET c == {p \in proj : HasArticle(p)}
    IN IF c = {} THEN 0 ELSE SetMin(c)

\* scrollToSection without the loop of lines 89-91: earlier links keep 'active'
scrollToSectionKeepsMenu(proj, menu, sectionId) ==
    LET targetSection == querySelector(sectionId)
        article == ActiveArticle(proj)
    IN IF targetSection # Null /\ article # 0
       THEN [menu   |-> menu \cup {m \in MenuLinks : m[1] \in proj /\ MenuHref(m) = sectionId},
             scroll |-> <<article, OffsetTop(targetSection) - HeaderClearance>>]
       ELSE [menu |-> menu, scroll |-> NoScroll]

\* the result: the new menu set and the scrollTo call made, if any
scrollToSection(proj, menu, sectionId) ==
    LET targetSection == querySelector(sectionId)
        article == ActiveArticle(proj)
    IN IF targetSection # Null /\ article # 0
       THEN [menu   |-> {m \in MenuLinks : m[1] \in proj /\ MenuHref(m) = sectionId},
             scroll |-> <<article, OffsetTop(targetSection) - HeaderClearance>>]
       ELSE [menu |-> menu, scroll |-> NoScroll]

(***************************************************************************)
(* The window geometry read by the DevTools monitor.                       *)
(***************************************************************************)
\* outer - inner differences: none, at the threshold, just over it, large
Gaps == {0, DevToolsThreshold, DevToolsThreshold + 1, MaxGap}

Window(gapH, gapW) ==
    [outerHeight |-> OuterSize, innerHeight |-> OuterSize - gapH,
     outerWidth  |-> OuterSize, innerWidth  |-> OuterSize - gapW]

(***************************************************************************)
(* Initial state: the parsed markup, before DOMContentLoaded.              *)
(***************************************************************************)
Init ==
    /\ dom \in Doms
    /\ loaded = FALSE
    /\ bodyBannerHidden = dom.hiddenAtLoad
    /\ bannerHiddenClass = FALSE
    /\ bannerDisplayNone = FALSE
    /\ projActive = {}
    /\ navActive = {}
    /\ menuActive = {}
    /\ dismissCount = 0
    /\ sched = [show |-> 0, remove |-> 0]
    /\ fired = [show |-> 0, remove |-> 0]
    /\ timers = <<>>
    /\ frames = <<>>
    /\ overlayShown = FALSE
    /\ popupShown = FALSE
    /\ buttonLabel = "clipboard"
    /\ copyCount = 0
    /\ win = Window(0, 0)
    /\ devtools = FALSE
    /\ emitCount = 0
    /\ focus = 0
    /\ lastOp = Op("init", <<>>)

(***************************************************************************)
(* DOMContentLoaded handler, script.js 19-141.                             *)
(***************************************************************************)
Load ==
    /\ ~loaded
    /\ loaded' = TRUE
    /\ LET ui1 == IF bodyBannerHidden                      \* lines 29-31
                  THEN showProject(Ui, ProjectSel(1)) ELSE Ui
           ui2 == IF NumProjects > 0                       \* lines 129-131
                  THEN showProject(ui1, ProjectSel(1)) ELSE ui1
       IN /\ projActive' = ui2.proj
          /\ navActive' = ui2.nav
          /\ menuActive' = ui2.menu
    /\ lastOp' = Op("load", <<>>)
    /\ UNCHANGED <<dom, monitorVars, guardVars, bodyBannerHidden, bannerHiddenClass, bannerDisplayNone,
                   dismissCount, sched, fired, timers, printVars, popupVars>>

(***************************************************************************)
(* Click on header link l, script.js 106-117.                              *)
(***************************************************************************)
NavClick(l) ==
    /\ loaded
    /\ l \in NavLinks
    /\ LET r == showProject(Ui, NavHref(l))
       IN /\ projActive' = r.proj
          /\ navActive' = r.nav
          /\ menuActive' = r.menu
          /\ lastOp' = [Op("navClick", <<l>>) EXCEPT !.threw = r.threw]
    /\ UNCHANGED <<dom, monitorVars, guardVars, loaded, bodyBannerHidden, bannerHiddenClass, bannerDisplayNone,
                   dismissCount, sched, fired, timers, printVars, popupVars>>

(***************************************************************************)
(* Click on side-menu link m, script.js 120-126.                           *)
(***************************************************************************)
MenuClick(m) ==
    /\ loaded
    /\ m \in MenuLinks
    /\ LET r == scrollToSection(projActive, menuActive, MenuHref(m))
       IN /\ menuActive' = r.menu
          /\ lastOp' = [Op("menuClick", m) EXCEPT !.scroll = r.scroll]
    /\ UNCHANGED <<dom, monitorVars, guardVars, loaded, bodyBannerHidden, bannerHiddenClass, bannerDisplayNone,
                   projActive, navActive, dismissCount, sched, fired, timers,
                   printVars, popupVars>>

(***************************************************************************)
(* Timers.                                                                 *)
(***************************************************************************)
Timer(kind, delay, job) == [kind |-> kind, delay |-> delay, rem |-> delay, job |-> job]

RemoveAt(s, i) == [j \in 1..(Len(s) - 1) |-> IF j < i THEN s[j] ELSE s[j + 1]]

\* A due timer runs once every timer set earlier with a delay no larger has run.
CanFire(i) ==
    /\ i \in DOMAIN timers
    /\ timers[i].rem = 0
    /\ \A j \in 1..(i - 1) : timers[j].delay > timers[i].delay

MinRem == SetMin({timers[i].rem : i \in DOMAIN timers})


\* Time passes by d, never beyond the next deadline.
Advance(d) ==
    /\ timers # <<>>
    /\ 0 < d /\ d <= MinRem
    /\ timers' = [i \in DOMAIN timers |-> [timers[i] EXCEPT !.rem = @ - d]]
    /\ lastOp' = Op("tick", <<>>)
    /\ UNCHANGED <<dom, monitorVars, guardVars, navVars, printVars, popupVars>>

\* Nothing happens until the next deadline.
Tick == timers # <<>> /\ Advance(MinRem)

\* The user waits for UserPause, while no timer is due before that.
Pause == timers # <<>> /\ UserPause < MinRem /\ Advance(UserPause)

(***************************************************************************)
(* hideBanner(), script.js 162-192, called from the scroll-icon click      *)
(* handler (133-140) or directly (it is a global function).                *)
(***************************************************************************)
\* the two setTimeout calls of lines 174 and 188
hideBannerTimers ==
    <<Timer("bannerShow", BannerShowDelay, 0), Timer("bannerRemove", BannerRemoveDelay, 0)>>

\* hideBanner with classList.toggle('hidden') in place of add (line 168)
HideBannerToggle ==
    /\ loaded
    /\ dismissCount < MaxDismiss
    /\ IF dom.hasBanner
       THEN /\ bannerHiddenClass' = ~bannerHiddenClass
            /\ bodyBannerHidden' = TRUE
            /\ timers' = timers \o hideBannerTimers
            /\ sched' = [sched EXCEPT !.show = @ + 1, !.remove = @ + 1]
            /\ dismissCount' = dismissCount + 1
       ELSE UNCHANGED <<bannerHiddenClass, bodyBannerHidden, timers, sched, dismissCount>>
    /\ lastOp' = Op("hideBanner", <<>>)
    /\ UNCHANGED <<dom, monitorVars, guardVars, loaded, bannerDisplayNone, projActive, navActive, menuActive,
                   fired, printVars, popupVars>>

HideBanner ==
    /\ loaded
    /\ dismissCount < MaxDismiss
    /\ IF dom.hasBanner                                   \* if (banner)
       THEN /\ bannerHiddenClass' = TRUE
            /\ bodyBannerHidden' = TRUE
            /\ timers' = timers \o hideBannerTimers
            /\ sched' = [k \in DOMAIN sched |->
                           sched[k] + Cardinality({i \in DOMAIN hideBannerTimers :
                               hideBannerTimers[i].kind =
                                 (IF k = "show" THEN "bannerShow" ELSE "bannerRemove")})]
            /\ dismissCount' = dismissCount + 1
       ELSE UNCHANGED <<bannerHiddenClass, bodyBannerHidden, timers, sched, dismissCount>>
    /\ lastOp' = Op("hideBanner", <<>>)
    /\ UNCHANGED <<dom, monitorVars, guardVars, loaded, bannerDisplayNone, projActive, navActive, menuActive,
                   fired, printVars, popupVars>>

\* the +600ms callback, script.js 174-185
bannerShowCallback(ui) ==
    LET firstProject == querySelector(ProjectSel(1))
        firstNavLink == HeaderLinkFor(ProjectSel(1))
    IN IF firstProject # Null
       THEN [ui EXCEPT !.proj = @ \cup {firstProject.p},
                       !.nav = IF firstNavLink # 0 THEN @ \cup {firstNavLink} ELSE @]
       ELSE ui

BannerShowTimer ==
    \E i \in DOMAIN timers :
      /\ CanFire(i)
      /\ timers[i].kind = "bannerShow"
      /\ timers' = RemoveAt(timers, i)
      /\ LET r == bannerShowCallback(Ui)
         IN /\ projActive' = r.proj
            /\ navActive' = r.nav
            /\ menuActive' = r.menu
      /\ fired' = [fired EXCEPT !.show = @ + 1]
      /\ lastOp' = Op("bannerShowTimer", <<>>)
      /\ UNCHANGED <<dom, monitorVars, guardVars, loaded, bodyBannerHidden, bannerHiddenClass, bannerDisplayNone,
                     dismissCount, sched, printVars, popupVars>>

\* the +1200ms callback, script.js 188-190
BannerRemoveTimer ==
    \E i \in DOMAIN timers :
      /\ CanFire(i)
      /\ timers[i].kind = "bannerRemove"
      /\ timers' = RemoveAt(timers, i)
      /\ bannerDisplayNone' = TRUE
      /\ fired' = [fired EXCEPT !.remove = @ + 1]
      /\ lastOp' = Op("bannerRemoveTimer", <<>>)
      /\ UNCHANGED <<dom, monitorVars, guardVars, loaded, bodyBannerHidden, bannerHiddenClass, projActive,
                     navActive, menuActive, dismissCount, sched, printVars, popupVars>>

(***************************************************************************)
(* The page: load, navigation, banner.                                     *)
(***************************************************************************)
Next ==
    \/ Load
    \/ \E l \in NavLinks : NavClick(l)
    \/ \E m \in MenuLinks : MenuClick(m)
    \/ HideBanner
    \/ BannerShowTimer
    \/ BannerRemoveTimer
    \/ Tick

Spec == Init /\ [][Next]_vars


(***************************************************************************)
(* printProject(projectId), script.js 321-603.  Project p stands for the   *)
(* id 'project_<p>', 0 for an id no element has.                           *)
(***************************************************************************)
ProjectIds == Projects \cup {0}
getElementById(projectId) ==
    IF projectId \in Projects THEN ProjectSel(projectId) ELSE Null

\* a print job's iframe, as line 566 appends it (what it renders is not modelled)
NewFrame == [attached |-> TRUE, loaded |-> FALSE, prints |-> 0, removals |-> 0]

\* what a call does: the errors it logs, whether it appends the iframe, and
\* the timers it sets for print job `job`
\* printProject without the fallback of lines 597-602
printProjectNoFallback(projectId, job) ==
    IF getElementById(projectId) = Null
    THEN [log |-> <<"Project not found">>, frame |-> FALSE, timers |-> <<>>]
    ELSE IF ~HasArticle(projectId)
    THEN [log |-> <<"Article element not found">>, frame |-> FALSE, timers |-> <<>>]
    ELSE [log |-> <<>>, frame |-> TRUE, timers |-> <<>>]

\* printProject without the article check of lines 334-337
printProjectNoArticleCheck(projectId, job) ==
    IF getElementById(projectId) = Null
    THEN [log |-> <<"Project not found">>, frame |-> FALSE, timers |-> <<>>]
    ELSE [log |-> <<>>, frame |-> TRUE,
          timers |-> <<Timer("printFallback", PrintFallbackDelay, job)>>]

printProject(projectId, job) ==
    IF getElementById(projectId) = Null                   \* lines 323-327
    THEN [log |-> <<"Project not found">>, frame |-> FALSE, timers |-> <<>>]
    ELSE IF ~HasArticle(projectId)                        \* lines 333-337
    THEN [log |-> <<"Article element not found">>, frame |-> FALSE, timers |-> <<>>]
    ELSE [log |-> <<>>, frame |-> TRUE,                   \* lines 556-602
          timers |-> <<Timer("printFallback", PrintFallbackDelay, job)>>]

PrintProject(projectId) ==
    LET r == printProject(projectId, Len(frames) + 1)
    IN /\ r.frame => Len(frames) < MaxPrints
       /\ frames' = IF r.frame THEN Append(frames, NewFrame) ELSE frames
       /\ timers' = timers \o r.timers
       /\ lastOp' = [Op("printProject", <<projectId>>) EXCEPT !.log = r.log]
       /\ UNCHANGED <<dom, monitorVars, guardVars, navVars, popupVars>>

\* removeChild without the printFrame.parentNode test of lines 583, 590, 599
removeFrameUnguarded(f) ==
    [f EXCEPT !.attached = FALSE, !.removals = @ + 1]

\* document.body.removeChild(printFrame), guarded by printFrame.parentNode
removeFrame(f) ==
    IF f.attached THEN [f EXCEPT !.attached = FALSE, !.removals = @ + 1] ELSE f

\* the iframe's load event, handled by printFrame.onload (575-595): it sets
\* the 500ms timer.  A detached iframe loads nothing.
FrameLoad(j) ==
    /\ j \in DOMAIN frames
    /\ frames[j].attached
    /\ ~frames[j].loaded
    /\ frames' = [frames EXCEPT ![j].loaded = TRUE]
    /\ timers' = Append(timers, Timer("printAfterLoad", PrintDelay, j))
    /\ lastOp' = Op("frameLoad", <<j>>)
    /\ UNCHANGED <<dom, monitorVars, guardVars, navVars, popupVars>>

\* the 500ms callback, script.js 576-594.  printOk: print() returns normally.
\* On a detached iframe contentWindow is null, so focus() throws.
\* the callback without the setTimeout of lines 582-586
printCallbackNoCleanup(f, job, printOk) ==
    IF f.attached /\ printOk
    THEN [frame |-> [f EXCEPT !.prints = @ + 1], log |-> <<>>, timers |-> <<>>]
    ELSE [frame |-> removeFrame(f), log |-> <<"Print error:">>, timers |-> <<>>]

\* the callback with a catch block that only logs (without lines 590-592)
printCallbackKeepsFrame(f, job, printOk) ==
    IF f.attached /\ printOk
    THEN [frame |-> [f EXCEPT !.prints = @ + 1], log |-> <<>>,
          timers |-> <<Timer("printCleanup", PrintCleanupDelay, job)>>]
    ELSE [frame |-> f, log |-> <<"Print error:">>, timers |-> <<>>]

printCallback(f, job, printOk) ==
    IF f.attached /\ printOk
    THEN [frame |-> [f EXCEPT !.prints = @ + 1], log |-> <<>>,
          timers |-> <<Timer("printCleanup", PrintCleanupDelay, job)>>]
    ELSE [frame |-> removeFrame(f), log |-> <<"Print error:">>, timers |-> <<>>]

PrintAfterLoadTimer ==
    \E i \in DOMAIN timers, printOk \in BOOLEAN :
      /\ CanFire(i)
      /\ timers[i].kind = "printAfterLoad"
      /\ LET j == timers[i].job
             r == printCallback(frames[j], j, printOk)
         IN /\ frames' = [frames EXCEPT ![j] = r.frame]
            /\ timers' = RemoveAt(timers, i) \o r.timers
            /\ lastOp' = [Op("printAfterLoadTimer", <<j>>) EXCEPT !.log = r.log]
      /\ UNCHANGED <<dom, monitorVars, guardVars, navVars, popupVars>>

\* the 1000ms callback after print(), script.js 582-586
PrintCleanupTimer ==
    \E i \in DOMAIN timers :
      /\ CanFire(i)
      /\ timers[i].kind = "printCleanup"
      /\ frames' = [frames EXCEPT ![timers[i].job] = removeFrame(@)]
      /\ timers' = RemoveAt(timers, i)
      /\ lastOp' = Op("printCleanupTimer", <<timers[i].job>>)
      /\ UNCHANGED <<dom, monitorVars, guardVars, navVars, popupVars>>

\* the 10000ms fallback callback, script.js 598-602
PrintFallbackTimer ==
    \E i \in DOMAIN timers :
      /\ CanFire(i)
      /\ timers[i].kind = "printFallback"
      /\ frames' = [frames EXCEPT ![timers[i].job] = removeFrame(@)]
      /\ timers' = RemoveAt(timers, i)
      /\ lastOp' = Op("printFallbackTimer", <<timers[i].job>>)
      /\ UNCHANGED <<dom, monitorVars, guardVars, navVars, popupVars>>

NextPrint ==
    \/ \E projectId \in ProjectIds : PrintProject(projectId)
    \/ \E j \in DOMAIN frames : FrameLoad(j)
    \/ PrintAfterLoadTimer
    \/ PrintCleanupTimer
    \/ PrintFallbackTimer
    \/ Tick

SpecPrint == Init /\ [][NextPrint]_vars

(***************************************************************************)
(* Content protection: the keydown handler, script.js 239-256.             *)
(***************************************************************************)
\* where an element lies: inside project section p, or 0 for outside every
\* project section (body, header, banner)
Locs == Projects \cup {0}

Keys == {"a", "A", "u", "I", "F12"}

KeyEvents == [ctrlKey : BOOLEAN, metaKey : BOOLEAN, shiftKey : BOOLEAN, key : Keys]

\* e.target.closest('.project-section'): the section's project, 0 for null
closest(target) == IF target \in Projects THEN target ELSE 0

\* section.matches(':focus-within')
focusWithin(section, foc) == foc = section

\* does the handler call e.preventDefault() for event e on target
keydown(e, target, foc) ==
    LET section == closest(target)
    IN IF /\ (e.ctrlKey \/ e.metaKey) /\ e.key = "a"              \* line 241
          /\ section # 0 /\ ~focusWithin(section, foc)             \* line 243
       THEN TRUE
       ELSE \/ e.key = "F12"                                       \* line 250
            \/ (e.ctrlKey \/ e.metaKey) /\ e.shiftKey /\ e.key = "I"
            \/ (e.ctrlKey \/ e.metaKey) /\ e.key = "u"

KeyOp(e, target, trusted) ==
    [Op("keydown", <<e.ctrlKey, e.metaKey, e.shiftKey, e.key, target, trusted>>)
        EXCEPT !.prevented = keydown(e, target, focus)]

\* a key pressed by the user: the event's target is the focused element
KeyDown(e) ==
    /\ lastOp' = KeyOp(e, focus, TRUE)
    /\ UNCHANGED <<dom, navVars, printVars, popupVars, monitorVars, guardVars, timers>>

\* a keydown event dispatched by script on any element
DispatchKeyDown(e, target) ==
    /\ lastOp' = KeyOp(e, target, FALSE)
    /\ UNCHANGED <<dom, navVars, printVars, popupVars, monitorVars, guardVars, timers>>

\* focus moves (Tab, click) to an element in loc
FocusChange(loc) ==
    /\ loc # focus
    /\ focus' = loc
    /\ lastOp' = Op("focus", <<loc>>)
    /\ UNCHANGED <<dom, navVars, printVars, popupVars, monitorVars, timers>>

NextGuard ==
    \/ Load
    \/ \E l \in NavLinks : NavClick(l)
    \/ \E loc \in Locs : FocusChange(loc)
    \/ \E e \in KeyEvents : KeyDown(e)
    \/ \E e \in KeyEvents, target \in Locs : DispatchKeyDown(e, target)

SpecGuard == Init /\ [][NextGuard]_vars

(***************************************************************************)
(* DevTools monitor, script.js 263-285.                                    *)
(***************************************************************************)
\* console.clear() followed by the four console.log calls of lines 272-279
CopyrightNotice ==
    <<"Portfolio Protected by Copyright", "All Rights Reserved",
      "original design thinking work", "Unauthorized copying is prohibited">>

\* the interval callback without the else branch of lines 281-283
devToolsPollNoReset(w, flag) ==
    IF \/ w.outerHeight - w.innerHeight > DevToolsThreshold
       \/ w.outerWidth - w.innerWidth > DevToolsThreshold
    THEN IF ~flag
         THEN [devtools |-> TRUE, log |-> CopyrightNotice]
         ELSE [devtools |-> flag, log |-> <<>>]
    ELSE [devtools |-> flag, log |-> <<>>]

\* the interval callback, lines 266-284: the new flag and what it logs
devToolsPoll(w, flag) ==
    IF \/ w.outerHeight - w.innerHeight > DevToolsThreshold
       \/ w.outerWidth - w.innerWidth > DevToolsThreshold
    THEN IF ~flag
         THEN [devtools |-> TRUE, log |-> CopyrightNotice]
         ELSE [devtools |-> flag, log |-> <<>>]
    ELSE [devtools |-> FALSE, log |-> <<>>]

\* one firing of setInterval's callback
DevToolsPoll ==
    LET r == devToolsPoll(win, devtools)
    IN /\ r.log # <<>> => emitCount < MaxEmits
       /\ devtools' = r.devtools
       /\ emitCount' = IF r.log # <<>> THEN emitCount + 1 ELSE emitCount
       /\ lastOp' = [Op("devToolsPoll", <<>>) EXCEPT !.log = r.log]
       /\ UNCHANGED <<dom, navVars, printVars, popupVars, guardVars, timers, win>>

\* the user resizes the window or docks, undocks or closes the inspector
Resize(gapH, gapW) ==
    /\ win' = Window(gapH, gapW)
    /\ win' # win
    /\ lastOp' = Op("resize", <<gapH, gapW>>)
    /\ UNCHANGED <<dom, navVars, printVars, popupVars, guardVars, timers,
                   devtools, emitCount>>

NextDevTools ==
    \/ DevToolsPoll
    \/ \E gapH, gapW \in Gaps : Resize(gapH, gapW)

SpecDevTools == Init /\ [][NextDevTools]_vars

(***************************************************************************)
(* The email popup, popup.js.                                              *)
(***************************************************************************)
\* showPopup without the line that shows the dialog (popup.js 4)
ShowPopupOverlayOnly ==
    /\ overlayShown' = TRUE
    /\ popupShown' = popupShown
    /\ lastOp' = Op("showPopup", <<>>)
    /\ UNCHANGED <<dom, monitorVars, guardVars, navVars, printVars, timers, buttonLabel, copyCount>>

\* showPopup(event), popup.js 1-5
ShowPopup ==
    /\ overlayShown' = TRUE
    /\ popupShown' = TRUE
    /\ lastOp' = Op("showPopup", <<>>)
    /\ UNCHANGED <<dom, monitorVars, guardVars, navVars, printVars, timers, buttonLabel, copyCount>>

\* closePopup(), popup.js 7-10
ClosePopup ==
    /\ overlayShown' = FALSE
    /\ popupShown' = FALSE
    /\ lastOp' = Op("closePopup", <<>>)
    /\ UNCHANGED <<dom, monitorVars, guardVars, navVars, printVars, timers, buttonLabel, copyCount>>

\* copyEmail without the setTimeout of popup.js 18-20
copyEmailNoRevert(copied) ==
    [label |-> "check", timers |-> <<>>]

\* copyEmail(), popup.js 12-21: the label it sets and the timer it sets.
\* copied is what document.execCommand('copy') returns, which the code does
\* not read; the timer's job field keeps it (1: copied).
copyEmail(copied) ==
    [label |-> "check",
     timers |-> <<Timer("copyRevert", CopyRevertDelay, IF copied THEN 1 ELSE 0)>>]

CopyEmail ==
    \E copied \in BOOLEAN :
      /\ copyCount < MaxCopies
      /\ copyCount' = copyCount + 1
      /\ buttonLabel' = copyEmail(copied).label
      /\ timers' = timers \o copyEmail(copied).timers
      /\ lastOp' = Op("copyEmail", <<IF copied THEN 1 ELSE 0>>)
      /\ UNCHANGED <<dom, monitorVars, guardVars, navVars, printVars, overlayShown, popupShown>>

\* the 3000ms callback, popup.js 18-20
CopyRevertTimer ==
    \E i \in DOMAIN timers :
      /\ CanFire(i)
      /\ timers[i].kind = "copyRevert"
      /\ buttonLabel' = "clipboard"
      /\ timers' = RemoveAt(timers, i)
      /\ lastOp' = Op("copyRevertTimer", <<timers[i].job>>)
      /\ UNCHANGED <<dom, monitorVars, guardVars, navVars, printVars, overlayShown, popupShown, copyCount>>

NextPopup ==
    \/ ShowPopup
    \/ ClosePopup
    \/ CopyEmail
    \/ CopyRevertTimer
    \/ Tick
    \/ Pause

SpecPopup == Init /\ [][NextPopup]_vars


(***************************************************************************)
(* Properties.                                                             *)
(***************************************************************************)
ActsOn(name, arg) == lastOp.op = name /\ lastOp.arg = <<arg>>
TargetsProject(l) == querySelector(NavHref(l)).kind = "project"

\* C1: after showProject(id) with the id of an existing project that has a
\* header link (a click on that link, or the call at load), that project is
\* the only active project, exactly one header link is active and it targets
\* the project, and no side-menu link is active.
C1_ShowProjectActivatesExactlyOne ==
    /\ \A l \in NavLinks :
         (ActsOn("navClick", l) /\ TargetsProject(l)) =>
            /\ projActive = {NavHref(l).p}
            /\ Cardinality(navActive) = 1
            /\ \A k \in navActive : k \in NavLinks /\ NavHref(k) = NavHref(l)
            /\ menuActive = {}
    /\ lastOp.op = "load" =>
            /\ projActive = {1}
            /\ Cardinality(navActive) = 1
            /\ \A k \in navActive : NavHref(k) = ProjectSel(1)
            /\ menuActive = {}

\* a click on the second project's link while the banner's timers are pending
C1_Witness ==
    /\ ActsOn("navClick", 2)
    /\ projActive = {2} /\ navActive = {2}
    /\ timers # <<>>

\* C2: once the page has loaded, exactly one project is active.  (Stated for
\* the markups whose header links all target a project.)
C2_ExactlyOneProjectActive ==
    (loaded /\ \A l \in NavLinks : TargetsProject(l)) =>
        Cardinality(projActive) = 1

\* C3: after two calls of hideBanner, the first-project activation and the
\* banner removal have each been scheduled once, and each fires once.
C3_DismissTwiceSchedulesOnce ==
    dismissCount >= 2 =>
        /\ sched.show = 1 /\ sched.remove = 1
        /\ fired.show <= 1 /\ fired.remove <= 1
        /\ timers = <<>> => (fired.show = 1 /\ fired.remove = 1)

\* C4: with the banner in the markup and 'banner-hidden' not set at load, no
\* project is active from load until hideBanner is called.
C4_NoProjectBeforeDismiss ==
    (loaded /\ dom.hasBanner /\ ~dom.hiddenAtLoad /\ dismissCount = 0) =>
        projActive = {}

\* C5: scrollToSection on a section of a project that is not active scrolls
\* nothing and changes no active flag.
C5_InactiveSectionIsNoOp ==
    [][(/\ lastOp'.op = "menuClick"
        /\ querySelector(MenuHref(lastOp'.arg)) # Null
        /\ lastOp'.arg[1] \notin projActive) =>
            /\ lastOp'.scroll = NoScroll
            /\ UNCHANGED <<menuActive, navActive, projActive>>]_vars

\* C6: for 3000ms after every copyEmail call whose copy succeeded, the
\* button shows the checkmark.
C6_CheckmarkFor3000ms ==
    \A i \in DOMAIN timers :
       (timers[i].kind = "copyRevert" /\ timers[i].job = 1 /\ timers[i].rem > 0)
          => buttonLabel = "check"

\* C7: while a print job's iframe is attached, the job's fallback timer is
\* pending, set 10000ms after the call: the iframe is detached no later than
\* that, whatever load and print do.
C7_FallbackBoundsSurface ==
    \A j \in DOMAIN frames :
       frames[j].attached =>
          \E i \in DOMAIN timers :
             /\ timers[i].kind = "printFallback"
             /\ timers[i].job = j
             /\ timers[i].delay = PrintFallbackDelay
             /\ timers[i].rem \in 0..PrintFallbackDelay

\* the fallback has just detached an iframe that never signalled load
C7_Witness ==
    /\ lastOp.op = "printFallbackTimer"
    /\ ~frames[lastOp.arg[1]].attached
    /\ ~frames[lastOp.arg[1]].loaded
    /\ frames[lastOp.arg[1]].removals = 1

\* C8: showProject with an id that matches no project does not throw and
\* leaves no project active.
C8_InvalidIdIsSilent ==
    \A l \in NavLinks :
       (ActsOn("navClick", l) /\ ~TargetsProject(l)) =>
          (~lastOp.threw /\ projActive = {})

\* C9: printProject with an id of no project, or of a project without an
\* <article>, logs an error, creates no iframe, sets no timer and leaves the
\* page as it was.
C9_PrintMissingIsNoOp ==
    [][(lastOp'.op = "printProject"
          /\ (lastOp'.arg[1] \notin Projects \/ ~HasArticle(lastOp'.arg[1]))) =>
            /\ Len(lastOp'.log) = 1
            /\ UNCHANGED <<dom, monitorVars, guardVars, frames, timers, navVars, popupVars>>]_vars

\* a call for a project without an <article>, made while a print job runs
C9_Witness ==
    /\ lastOp.op = "printProject"
    /\ lastOp.arg[1] \in Projects /\ ~HasArticle(lastOp.arg[1])
    /\ lastOp.log = <<"Article element not found">>
    /\ \E j \in DOMAIN frames : frames[j].attached

\* C10: once the page has loaded, a header link is active exactly when the
\* project it targets exists and is active.
C10_NavLinkMirrorsTarget ==
    loaded =>
      \A l \in NavLinks :
         l \in navActive <=> (TargetsProject(l) /\ NavHref(l).p \in projActive)

\* BannerState: Visible (0), Hiding (1: class 'hidden' set), Hidden (2: display none)
BannerRank(hiddenClass, displayNone) ==
    IF displayNone THEN 2 ELSE IF hiddenClass THEN 1 ELSE 0

\* C11: the banner only moves forward, Visible -> Hiding -> Hidden: once
\* hideBanner has marked it hidden no step makes it visible again, and once it
\* is removed from rendering it stays removed.
C11_BannerOnlyForward ==
    [][/\ BannerRank(bannerHiddenClass', bannerDisplayNone')
            >= BannerRank(bannerHiddenClass, bannerDisplayNone)
       /\ bannerHiddenClass => bannerHiddenClass'
       /\ bannerDisplayNone => bannerDisplayNone'
       /\ bodyBannerHidden => bodyBannerHidden']_vars

\* hideBanner called again after the banner was removed from rendering
C11_Witness ==
    /\ lastOp.op = "hideBanner"
    /\ dismissCount = 2
    /\ bannerDisplayNone /\ bannerHiddenClass

\* C12: the first-project activation fires before the banner removal, and
\* no activation fires once a removal has fired.
C12_ActivationBeforeRemoval ==
    /\ lastOp.op = "bannerShowTimer" => fired.remove = 0
    /\ fired.remove <= fired.show

\* C13: after the +600ms callback the first project and its header link are
\* the only active project and header link, and no side-menu link is active,
\* as after showProject('#project_1').
C13_DeferredActivationIsShowProject ==
    lastOp.op = "bannerShowTimer" =>
        /\ projActive = showProject(Ui, ProjectSel(1)).proj
        /\ navActive = showProject(Ui, ProjectSel(1)).nav
        /\ menuActive = showProject(Ui, ProjectSel(1)).menu

\* print job j has a pending timer of this kind with this much time left
Pending(ts, kind, j, rem) ==
    \E i \in DOMAIN ts : ts[i].kind = kind /\ ts[i].job = j /\ ts[i].rem = rem

\* the step just taken is this callback of print job j
JobStep(name, j) == lastOp'.op = name /\ lastOp'.arg = <<j>>

\* C14 as stated: the 500ms callback of a print job always finds the surface
\* still attached, and after a successful print the surface is removed by
\* the 1000ms removal and by nothing else.
C14_PrintOnAttachedThenCleanup ==
    [][\A j \in DOMAIN frames :
         /\ JobStep("printAfterLoadTimer", j) => frames[j].attached
         /\ (frames[j].prints >= 1 /\ frames[j].attached /\ ~frames'[j].attached)
               => JobStep("printCleanupTimer", j)]_vars

\* C14, amended: load sets the print callback 500ms ahead and print is never
\* invoked before load; the callback invokes print only on a surface that is
\* still attached and then sets the removal 1000ms ahead; after a successful
\* print the surface is detached only by that removal or by the job's
\* 10000ms fallback; a callback that finds the surface already detached
\* invokes no print and logs the error.
C14_PrintTiming ==
    [][\A j \in DOMAIN frames :
         /\ JobStep("frameLoad", j) =>
               /\ ~frames[j].loaded /\ frames[j].prints = 0
               /\ Pending(timers', "printAfterLoad", j, PrintDelay)
         /\ JobStep("printAfterLoadTimer", j) =>
               /\ frames[j].loaded
               /\ Pending(timers, "printAfterLoad", j, 0)
               /\ ~frames[j].attached =>
                     /\ frames'[j].prints = frames[j].prints
                     /\ lastOp'.log = <<"Print error:">>
         /\ frames'[j].prints # frames[j].prints =>
               /\ JobStep("printAfterLoadTimer", j)
               /\ frames[j].attached /\ frames'[j].attached
               /\ frames'[j].prints = frames[j].prints + 1
               /\ Pending(timers', "printCleanup", j, PrintCleanupDelay)
         /\ JobStep("printCleanupTimer", j) =>
               /\ Pending(timers, "printCleanup", j, 0)
               /\ ~frames'[j].attached
         /\ (frames[j].prints >= 1 /\ frames[j].attached /\ ~frames'[j].attached)
               => \/ JobStep("printCleanupTimer", j)
                  \/ JobStep("printFallbackTimer", j)]_vars

\* load, print 500ms later, removal by the 1000ms timer with the fallback
\* still pending
C14_Witness ==
    \E j \in DOMAIN frames :
      /\ lastOp.op = "printCleanupTimer" /\ lastOp.arg = <<j>>
      /\ frames[j].prints = 1 /\ frames[j].removals = 1
      /\ Pending(timers, "printFallback", j, PrintFallbackDelay - PrintDelay - PrintCleanupDelay)

\* C15: when print throws in the 500ms callback, the error is caught and
\* logged and the surface is removed in that same step, and a detached
\* surface is never attached again by a later timer.
C15_PrintErrorRemovesSurface ==
    [][\A j \in DOMAIN frames :
         /\ (JobStep("printAfterLoadTimer", j) /\ lastOp'.log # <<>>) =>
               /\ lastOp'.log = <<"Print error:">>
               /\ ~lastOp'.threw
               /\ ~frames'[j].attached
               /\ frames'[j].prints = frames[j].prints
         /\ ~frames[j].attached => ~frames'[j].attached]_vars

\* print threw on an attached surface: removed by the catch block while the
\* fallback is still pending
C15_Witness ==
    \E j \in DOMAIN frames :
      /\ lastOp.op = "printAfterLoadTimer" /\ lastOp.arg = <<j>>
      /\ lastOp.log = <<"Print error:">>
      /\ frames[j].prints = 0 /\ frames[j].removals = 1 /\ ~frames[j].attached
      /\ \E i \in DOMAIN timers :
            timers[i].kind = "printFallback" /\ timers[i].job = j /\ timers[i].rem > 0

\* C20: whatever the order of load, print and timer events of overlapping
\* print jobs, a surface is detached at most once, a surface stays attached
\* only while its fallback is pending (so it is detached exactly once), a
\* removal is never performed on a detached surface, and a surface is
\* detached only by a timer of its own job.
C20_DetachedExactlyOnce ==
    [][\A j \in DOMAIN frames' :
         /\ frames'[j].removals <= 1
         /\ frames'[j].attached <=> frames'[j].removals = 0
         /\ frames'[j].attached =>
               \E i \in DOMAIN timers' :
                  timers'[i].kind = "printFallback" /\ timers'[i].job = j
         /\ j \in DOMAIN frames =>
               /\ ~frames[j].attached =>
                     frames'[j].removals = frames[j].removals
               /\ frames'[j].removals # frames[j].removals =>
                     /\ lastOp'.arg = <<j>>
                     /\ lastOp'.op \in {"printAfterLoadTimer", "printCleanupTimer",
                                        "printFallbackTimer"}
               /\ frames'[j] # frames[j] => lastOp'.arg = <<j>>]_vars

\* two overlapping jobs, one removed after a successful print and one by
\* another path, all their timers fired
C20_Witness ==
    /\ Len(frames) = 2
    /\ timers = <<>>
    /\ frames[1].prints = 1 /\ frames[1].removals = 1
    /\ frames[2].prints = 0 /\ frames[2].removals = 1
    /\ frames[2].loaded

\* C16: scrollToSection(sectionId) with the target section and the active
\* project's article both present leaves exactly the side-menu link matching
\* sectionId active; with either missing it changes no side-menu link.
C16_MenuLinkMirrorsSection ==
    [][lastOp'.op = "menuClick" =>
         IF /\ querySelector(MenuHref(lastOp'.arg)) # Null
            /\ ActiveArticle(projActive) # 0
         THEN menuActive' = {m \in MenuLinks : MenuHref(m) = MenuHref(lastOp'.arg)}
         ELSE menuActive' = menuActive]_vars

\* C18: the overlay and the email dialog always have the same visibility:
\* both shown after showPopup, both hidden after closePopup, whatever the
\* state the call was made in; copyEmail and its revert timer change neither.
C18_OverlayAndDialogAgree ==
    [][/\ overlayShown' = popupShown'
       /\ lastOp'.op = "showPopup" => (overlayShown' /\ popupShown')
       /\ lastOp'.op = "closePopup" => (~overlayShown' /\ ~popupShown')
       /\ lastOp'.op \in {"copyEmail", "copyRevertTimer"} =>
             UNCHANGED <<overlayShown, popupShown>>]_vars

\* copyEmail called with the popup shown
C18_Witness ==
    /\ lastOp.op = "copyEmail"
    /\ overlayShown /\ popupShown
    /\ buttonLabel = "check"

\* the geometry test of the DevTools monitor
Exceeds(w) ==
    \/ w.outerHeight - w.innerHeight > DevToolsThreshold
    \/ w.outerWidth - w.innerWidth > DevToolsThreshold

\* C17: a poll writes the copyright notice exactly when the discrepancy on
\* either axis exceeds 160 and the monitor was not already in the detected
\* state; a poll at or under the threshold resets the monitor, so the next
\* episode is detected again; nothing but a poll writes the notice or
\* changes the monitor's flag.
C17_OncePerEpisode ==
    [][/\ lastOp'.op = "devToolsPoll" =>
             /\ (lastOp'.log = CopyrightNotice) <=> (Exceeds(win) /\ ~devtools)
             /\ lastOp'.log \in {<<>>, CopyrightNotice}
             /\ devtools' = Exceeds(win)
             /\ emitCount' = emitCount + (IF Exceeds(win) /\ ~devtools THEN 1 ELSE 0)
       /\ lastOp'.op # "devToolsPoll" =>
             /\ devtools' = devtools
             /\ emitCount' = emitCount]_vars

\* the second detection episode: the notice is written again
C17_Witness ==
    /\ lastOp.op = "devToolsPoll"
    /\ lastOp.log = CopyrightNotice
    /\ emitCount = 2
    /\ devtools

\* the last step was a user's keydown with Ctrl or Meta and 'a'
SelectAllPressed ==
    /\ lastOp.op = "keydown"
    /\ lastOp.arg[6]
    /\ (lastOp.arg[1] \/ lastOp.arg[2]) /\ lastOp.arg[4] = "a"

\* C19: a select-all keydown is prevented exactly when focus is outside the
\* active project, and never when focus is inside it.
C19_SelectAllGuard ==
    (SelectAllPressed /\ loaded /\ Cardinality(projActive) = 1) =>
        (lastOp.prevented <=> focus \notin projActive)

\* C21: in every reachable state at most one side-menu link is active, and
\* an active side-menu link belongs to a project that is active.
C21_AtMostOneMenuLink ==
    /\ Cardinality(menuActive) <= 1
    /\ \A m \in menuActive : m[1] \in projActive

\* a side-menu link of project 2 is active when the banner's 600ms callback
\* adds project 1 to the active projects
C21_Witness ==
    /\ lastOp.op = "bannerShowTimer"
    /\ projActive = {1, 2}
    /\ \E m \in menuActive : m[1] = 2

\* a copyEmail call was made at most 3000ms ago: its revert timer is pending
RecentCopy ==
    \E i \in DOMAIN timers :
       /\ timers[i].kind = "copyRevert"
       /\ timers[i].rem >= 0 /\ timers[i].rem <= CopyRevertDelay

\* C22: the button shows the checkmark only if copyEmail was called within
\* the preceding 3000ms; once every pending revert timer has fired it shows
\* the clipboard icon, and only a copyEmail call replaces the clipboard icon
\* by the checkmark.
C22_CheckmarkOnlyAfterRecentCopy ==
    [][/\ buttonLabel \in {"check", "clipboard"}
       /\ buttonLabel = "check" => RecentCopy
       /\ buttonLabel' = "check" => RecentCopy'
       /\ (\A i \in DOMAIN timers' : timers'[i].kind # "copyRevert")
             => buttonLabel' = "clipboard"
       /\ (buttonLabel = "clipboard" /\ buttonLabel' = "check")
             => lastOp'.op = "copyEmail"
       /\ lastOp'.op = "copyEmail" => buttonLabel' = "check"]_vars

\* two copyEmail calls, both revert timers fired
C22_Witness ==
    /\ lastOp.op = "copyRevertTimer"
    /\ copyCount = 2
    /\ timers = <<>>
    /\ buttonLabel = "clipboard"

====
